---- MODULE Spec2Model ----
(***************************************************************************)
(* A model of the resilient collection engine of gitlab-userreport          *)
(* (src/main.py): the retry decorator, the checkpointed page collectors     *)
(* for projects and groups, and the user crawl that calls them.             *)
(***************************************************************************)
EXTENDS Integers, Sequences, FiniteSets, TLC

(***************************************************************************)
(* Bounds of the model.                                                     *)
(***************************************************************************)
\* largest backing collection, in entities
MaxN == 11
\* largest per_page argument passed to a collector
MaxPerPage == 2
\* largest max_retries / delay arguments given to the decorator on the
\* generic unit of work
MaxM == 4
MaxD == 2
\* number of distinct return values of the generic unit of work
MaxVal == 2
\* largest last_page found in a checkpoint file left on disk before a call
MaxStartPage == 13
\* largest backing collection of a whole run (users, projects, groups)
MaxRunN == 1
\* most projects and most groups of the instance a role function reads
MaxProjects == 2
MaxGroups == 1
\* last page the platform may answer empty although it is not past the end
MaxHolePage == 4
\* most users of a run whose fields are drawn from every combination
MaxClassUsers == 2
MaxReportUsers == 2

(***************************************************************************)
(* Constants of the program.                                                *)
(***************************************************************************)
\* retry_transient_errors(max_retries=3, delay=1, ...)
DefaultMaxRetries == 3
DefaultDelay == 1
\* @retry_transient_errors(max_retries=10, delay=5) on both collectors
CollectorMaxRetries == 10
CollectorDelay == 5
\* max_consecutive_empty = 3
MaxConsecutiveEmpty == 3
\* if page % 10 == 0 (projects), if page % 5 == 0 (groups)
ProjectsCheckpointEvery == 10
GroupsCheckpointEvery == 5
\* per_page = 20 of the users loop; per_page=10 passed to both collectors
UsersPerPage == 20
OrchestratorPerPage == 10
\* time.sleep(0.5) between pages and time.sleep(10) every 100 pages in the
\* collectors, time.sleep(0.3) in the users loop, in milliseconds
InterPageDelayMs == 500
LongPauseMs == 10000
LongPauseEvery == 100
UsersDelayMs == 300
\* batch_size = 100 of the classification loop
BatchSize == 100
PerformanceThreshold == 500
PromptThreshold == 1000
\* max_groups_to_check = 500, max_projects_to_check = 100, and per_page = 20
\* of the probing loops of the role functions
MaxGroupsToCheck == 500
MaxProjectsToCheck == 100
RolesPerPage == 20

CollectorKinds == {"projects", "groups"}
Kinds == {"users"} \cup CollectorKinds

\* the frames that carry a retry wrapper
Frames == {"unit", "projects", "groups", "batch", "get_users"}

NoFile == [absent |-> TRUE]
\* a checkpoint file that open() or json.load() cannot read
MalformedFile == [malformed |-> TRUE]
NoExc == [kind |-> "None"]
NoResult == <<-1>>

(***************************************************************************)
(* Exceptions.  The transient set is the decorator's default `exceptions`   *)
(* tuple; every other exception class is fatal.  msg is str(e).             *)
(***************************************************************************)
TransientKinds == {"GitlabHttpError", "GitlabConnectionError", "Timeout"}
FatalKinds == {"GitlabAuthenticationError"}

ErrMsg(k) ==
    CASE k = "GitlabHttpError" -> "502: Bad Gateway"
      [] k = "GitlabConnectionError" -> "Connection refused"
      [] k = "Timeout" -> "Read timed out"
      [] OTHER -> "401: Unauthorized"

Exc(k) == [kind |-> k, msg |-> ErrMsg(k), cause |-> "None"]
Exceptions == {Exc(k) : k \in TransientKinds \cup FatalKinds}

\* sys.exit(1) raises SystemExit, which is not an Exception subclass
SysExit == [kind |-> "SystemExit", msg |-> "1", cause |-> "None"]

VARIABLES
    mode,       \* which entry point runs: "unit", "collector", "run", ...
    pc,         \* control location
    kind,       \* the collection being fetched
    size,       \* backing collection sizes, per kind (static)
    per_page,   \* the collector's per_page argument
    deco,       \* decorator arguments (max_retries, delay) per frame
    wr,         \* wrapper locals (retries, current_delay) per frame
    slept,      \* per frame: the delays the wrapper has slept, in order
    attempts,   \* per frame: how many times the wrapper called func
    paced,      \* the sleeps taken since the latest page request, in ms
    items,      \* the collector's accumulated list (projects / groups)
    page,       \* the collector's page
    empties,    \* consecutive_empty_pages
    ckptFile,   \* <kind>_checkpoint.json, per kind
    emergFile,  \* emergency_<kind>_checkpoint.json, per kind
    result,     \* the value the call returned
    exc,        \* the exception that ended the call or the run
    lastOutcome,\* the outcome of the latest attempt of the wrapped function
    ckptAtCall, \* the normal checkpoint file when the collector call started
    fetches,    \* page fetches issued by the current collector attempt
    faults,     \* fetch errors raised so far
    all_users,  \* the orchestrator's all_users
    upage,      \* page of the users loop
    collected,  \* the orchestrator's projects and groups lists
    exit_status,\* status of the process once it has exited, -1 before
    lastReq,    \* the page number of the latest page request of the call
    runPages,   \* the pages this process has fetched and accumulated
    prevPages,  \* the pages the interrupted process before it had
    levels,     \* the user's access level on each project and each group
    entry,      \* the role function called
    skip_roles, \* argument skip_roles of get_user_roles_optimized
    roles,      \* the profile being built: the dict `roles`
    tier,       \* the way the profile is being built
    rpage,      \* `page` of the probing loops
    ridx,       \* position of the loop over the current page or list
    checked,    \* groups_checked / projects_checked
    requests,   \* requests sent to the platform by the call
    lookup_errors, \* whether a listing or a membership lookup has failed
    list_errors,\* whether a listing (or the lookup of the user) has failed
    lookups,    \* the lookups made on single resources, with their outcome
    warned,     \* the resources a warning was printed for
    reliable,   \* whether the platform answers every request of the call
    holes,      \* the pages the platform answers empty although not past the end
    attrs,      \* the fields of each user of the instance
    billable_users,     \* the orchestrator's billable_users
    non_billable_users, \* the orchestrator's non_billable_users
    batch_i,    \* `i` of the loop over the batches
    batch_sleeps, \* the pauses taken after batches
    run_result, \* what get_users has returned to its caller
    users_len,  \* len(users) of generate_report; user number n has id n
    roles_arg,  \* argument include_roles as the caller passed it
    include_roles, \* include_roles inside the report, after the prompt
    max_role_only, \* argument max_role_only of generate_report
    performance_mode, \* performance_mode as generate_report computes it
    failing,    \* the users whose role resolution raises inside the report
    found,      \* the profile a full resolution returns inside the report
    ri,         \* position of the report loop
    user_data,  \* the records of the report
    calls,      \* the skip_roles argument of each resolver call of the report
    prompted    \* whether the report asked for confirmation on input

vars == <<mode, pc, kind, size, per_page, deco, wr, slept, attempts, items,
          paced,
          page, empties, ckptFile, emergFile, result, exc, lastOutcome,
          ckptAtCall, fetches, faults, all_users, upage, collected,
          exit_status, lastReq, runPages, prevPages, levels, entry,
          skip_roles, roles, tier, rpage, ridx, checked, requests,
          lookup_errors, list_errors, lookups, warned, reliable, holes,
          attrs,
          billable_users, non_billable_users, batch_i, batch_sleeps,
          run_result, users_len, roles_arg, include_roles, max_role_only, performance_mode, failing,
          found, ri, user_data, calls, prompted>>

collVars == <<items, page, empties, fetches, paced>>
fileVars == <<ckptFile, emergFile>>
roleVars == <<levels, entry, skip_roles, roles, tier, rpage, ridx, checked,
              requests, lookup_errors, list_errors, lookups, warned,
              reliable>>
classVars == <<attrs, billable_users, non_billable_users, batch_i,
               batch_sleeps, run_result>>
reportVars == <<users_len, roles_arg, include_roles, max_role_only, performance_mode,
                failing, found, ri, user_data, calls, prompted>>
inputVars == <<mode, size, deco, roleVars, holes, classVars, reportVars>>
orchVars == <<all_users, upage, collected, exit_status>>
crashVars == <<lastReq, runPages, prevPages>>
engineVars == <<kind, per_page, ckptAtCall, wr, slept, attempts, collVars,
                fileVars, result, exc, lastOutcome, faults, orchVars,
                crashVars>>

(***************************************************************************)
(* retry_transient_errors                                                   *)
(***************************************************************************)
\* `except exceptions as e`: is e an instance of the transient tuple
IsTransient(e) == e.kind \in TransientKinds

\* `if retries > max_retries`, evaluated after retries += 1
RetriesExceededOffByOne(retries, max_retries) == retries >= max_retries
RetriesExceededLate(retries, max_retries) == retries > max_retries + 1
RetriesExceeded(retries, max_retries) == retries > max_retries

\* `current_delay *= 2`
NextDelayLinear(current_delay, delay) == current_delay + delay
NextDelay(current_delay, delay) == current_delay * 2

\* wrapper locals at entry: retries = 0, current_delay = delay
WrapperEntry(f) == [retries |-> 0, current_delay |-> deco[f].delay]

\* the except clause of the wrapper of frame f:
\* "raise" when the retries are used up, "retry" after sleeping otherwise
CatchVerdict(f) ==
    IF RetriesExceeded(wr[f].retries + 1, deco[f].max_retries)
    THEN "raise" ELSE "retry"

\* what the wrapper of frame f does with an exception e raised by func:
\* only the transient classes enter the except clause
WrapperVerdictRetryAll(f, e) == CatchVerdict(f)
WrapperVerdict(f, e) == IF IsTransient(e) THEN CatchVerdict(f) ELSE "raise"

\* the wrapper's locals after func raised e
WrapperAfter(f, e) ==
    IF WrapperVerdict(f, e) = "retry"
    THEN [retries |-> wr[f].retries + 1,
          current_delay |-> NextDelay(wr[f].current_delay, deco[f].delay)]
    ELSE IF IsTransient(e)
         THEN [wr[f] EXCEPT !.retries = @ + 1]
         ELSE wr[f]

\* the delays slept by the wrapper after func raised e: time.sleep(current_delay)
SleptAfter(f, e) ==
    IF WrapperVerdict(f, e) = "retry"
    THEN Append(slept[f], wr[f].current_delay)
    ELSE slept[f]

\* the exception that leaves the wrapper: the bare `raise` re-raises e
Reraised(e) == e

(***************************************************************************)
(* A generic unit of work under the decorator: every attempt either         *)
(* returns a value or raises an exception.                                  *)
(***************************************************************************)
UnitOutcomes ==
    {[type |-> "return", val |-> v, exc |-> NoExc] : v \in 1..MaxVal}
    \cup {[type |-> "raise", val |-> 0, exc |-> e] : e \in Exceptions}

\* `return func(*args, **kwargs)` inside `while True: try:`, and the except
\* clause when func raises
UnitAttempt ==
    /\ mode = "unit"
    /\ pc = "unit_call"
    /\ \E o \in UnitOutcomes :
        /\ lastOutcome' = o
        /\ attempts' = [attempts EXCEPT !["unit"] = @ + 1]
        /\ IF o.type = "return"
           THEN /\ result' = <<o.val>>
                /\ pc' = "returned"
                /\ UNCHANGED <<wr, slept, exc>>
           ELSE /\ wr' = [wr EXCEPT !["unit"] = WrapperAfter("unit", o.exc)]
                /\ slept' = [slept EXCEPT !["unit"] = SleptAfter("unit", o.exc)]
                /\ IF WrapperVerdict("unit", o.exc) = "retry"
                   THEN UNCHANGED <<pc, exc>>
                   ELSE pc' = "raised" /\ exc' = Reraised(o.exc)
                /\ UNCHANGED result
    /\ UNCHANGED <<inputVars, kind, per_page, ckptAtCall, collVars, fileVars,
                   faults, orchVars, crashVars>>

(***************************************************************************)
(* The platform: a static backing collection of size[k] entities with ids   *)
(* 1..size[k], listed in ascending id order, pp per page.                   *)
(***************************************************************************)
Min(a, b) == IF a < b THEN a ELSE b
Max(a, b) == IF a > b THEN a ELSE b

\* gl.<kind>.list(page=p, per_page=pp, order_by='id', sort='asc')
ListPage(k, p, pp) ==
    LET first == (p - 1) * pp
        cnt == Max(0, Min(pp, size[k] - first))
    IN [i \in 1..cnt |-> first + i]

IdSet(seq) == {seq[i] : i \in 1..Len(seq)}

\* what the platform answers to the request of page p of a collector: the
\* page, or nothing for a page it answers empty at that moment
Answer(k, p, pp) == IF p \in holes THEN <<>> ELSE ListPage(k, p, pp)


(***************************************************************************)
(* The orchestrator's exception handler and process exit                    *)
(* (get_users_with_batch_processing, called through get_users)              *)
(***************************************************************************)
ExitVerdictRerun == "rerun"
\* `except Exception as e: ... sys.exit(1)`: SystemExit travels through the
\* wrapper of get_users_with_batch_processing, then through that of get_users
ExitVerdict ==
    IF /\ WrapperVerdict("batch", SysExit) = "raise"
       /\ WrapperVerdict("get_users", SysExit) = "raise"
    THEN "exit" ELSE "rerun"

\* the wrapper locals w once SystemExit has travelled through both wrappers
OuterWr(w) ==
    IF WrapperVerdict("batch", SysExit) = "retry"
    THEN [w EXCEPT !["batch"] = WrapperAfter("batch", SysExit)]
    ELSE IF WrapperVerdict("get_users", SysExit) = "retry"
         THEN [w EXCEPT !["get_users"] = WrapperAfter("get_users", SysExit),
                        !["batch"] = WrapperEntry("batch")]
         ELSE w

OuterSlept(sl) ==
    IF WrapperVerdict("batch", SysExit) = "retry"
    THEN [sl EXCEPT !["batch"] = SleptAfter("batch", SysExit)]
    ELSE IF WrapperVerdict("get_users", SysExit) = "retry"
         THEN [sl EXCEPT !["get_users"] = SleptAfter("get_users", SysExit)]
         ELSE sl

\* an exception reached the handler of get_users_with_batch_processing
\* while the wrapper locals were w and the delays slept sl
OrchestratorExcept(w, sl) ==
    /\ wr' = OuterWr(w)
    /\ slept' = OuterSlept(sl)
    /\ IF ExitVerdict = "exit"
       THEN pc' = "exited" /\ exit_status' = 1
       ELSE pc' = "run_start" /\ exit_status' = exit_status

(***************************************************************************)
(* get_all_projects_with_checkpoints / get_all_groups_with_checkpoints      *)
(***************************************************************************)
StartPageFromEmergency(file) ==
    IF emergFile[kind] # NoFile THEN emergFile[kind].last_page
    ELSE IF file = NoFile THEN 1 ELSE file.last_page
StartPageIgnoringCheckpoint(file) == 1

\* start_page = checkpoint_data.get('last_page', 1); 1 when the file is
\* missing (FileNotFoundError) or cannot be loaded (except Exception)
StartPage(file) == IF "last_page" \in DOMAIN file THEN file.last_page ELSE 1

\* `if page % 10 == 0` (projects), `if page % 5 == 0` (groups)
CheckpointEvery(k) ==
    IF k = "projects" THEN ProjectsCheckpointEvery ELSE GroupsCheckpointEvery
CheckpointNeverDue(k, p) == FALSE
CheckpointDue(k, p) == p % CheckpointEvery(k) = 0

NormalCheckpointSamePage(p, acc) == [last_page |-> p, total |-> Len(acc)]

\* checkpoint_data = {'last_page': page + 1, 'total_<kind>': len(<kind>)}
NormalCheckpoint(p, acc) == [last_page |-> p + 1, total |-> Len(acc)]

\* emergency_checkpoint = {'last_page': page, 'total_<kind>': len(<kind>),
\*                         'error': str(e)}
EmergencyCheckpointNextPage(p, acc, e) ==
    [last_page |-> p + 1, total |-> Len(acc), error |-> e.msg]
EmergencyCheckpointNoError(p, acc, e) ==
    [last_page |-> p, total |-> Len(acc), error |-> ""]
EmergencyCheckpoint(p, acc, e) ==
    [last_page |-> p, total |-> Len(acc), error |-> e.msg]

\* `while consecutive_empty_pages < max_consecutive_empty`
LoopContinuesOneMore(c) == c <= MaxConsecutiveEmpty
LoopContinues(c) == c < MaxConsecutiveEmpty

\* consecutive_empty_pages after a page: += 1 on an empty page, = 0 otherwise
EmptiesNeverCounted(c, got) == 0
EmptiesNeverReset(c, got) == IF got = <<>> THEN c + 1 ELSE c
EmptiesAfter(c, got) == IF got = <<>> THEN c + 1 ELSE 0

\* `page += 1`, on an empty page and after a non-empty one
NextPageStuck(p) == p
NextPage(p) == p + 1

\* `if page % 100 == 0: time.sleep(10)`, in the projects collector only
LongPauseDue(k, p) == k = "projects" /\ p % LongPauseEvery = 0

\* the sleeps of an iteration that fetched `got` and moved on to page p:
\* none after an empty page (`continue`), time.sleep(0.5) after a non-empty
\* one, then the long pause when it is due
PacedAfter(k, got, p) ==
    IF got = <<>> THEN <<>>
    ELSE IF LongPauseDue(k, p) THEN <<InterPageDelayMs, LongPauseMs>>
    ELSE <<InterPageDelayMs>>

\* the accumulated list after a page: <kind>.extend(page)
AccumulatedAfter(acc, got) == acc \o got

\* the normal checkpoint file after page p was accumulated into acc
CheckpointAfter(file, k, p, acc) ==
    IF CheckpointDue(k, p) THEN NormalCheckpoint(p, acc) ELSE file

CleanedUpNothing(files, k) == files
\* the checkpoint files after the clean-up that ends a collector:
\* `if os.path.exists(checkpoint_file): os.remove(checkpoint_file)`
CleanedUp(files, k) == [files EXCEPT ![k] = NoFile]

\* the emergency file after the same clean-up: it is not touched
EmergencyAfterCleanUp(files, k) == files

ListKept == items
\* `projects = []` / `groups = []` at the top of the function
FreshList == <<>>

\* the body of the function up to the loop: empty list, load the checkpoint
CollectorStart ==
    /\ pc = "coll_start"
    /\ attempts' = [attempts EXCEPT ![kind] = @ + 1]
    /\ items' = FreshList
    /\ paced' = <<>>
    /\ page' = StartPage(ckptFile[kind])
    /\ empties' = 0
    /\ fetches' = 0
    /\ pc' = "coll_loop"
    /\ UNCHANGED <<inputVars, kind, per_page, ckptAtCall, wr, slept, fileVars,
                   result, exc, lastOutcome, faults, orchVars, crashVars>>

\* one iteration of the loop whose page fetch answers
FetchPage ==
    /\ pc = "coll_loop"
    /\ LoopContinues(empties)
    /\ fetches' = fetches + 1
    /\ LET got == Answer(kind, page, per_page) IN
        /\ empties' = EmptiesAfter(empties, got)
        /\ items' = AccumulatedAfter(items, got)
        /\ ckptFile' =
            IF got = <<>> THEN ckptFile
            ELSE [ckptFile EXCEPT
                    ![kind] = CheckpointAfter(@, kind, page, items')]
        /\ page' = NextPage(page)
        /\ paced' = PacedAfter(kind, got, page')
        /\ runPages' = IF got = <<>> THEN runPages ELSE runPages \cup {page}
    /\ lastReq' = page
    /\ UNCHANGED <<inputVars, kind, per_page, ckptAtCall, pc, wr, slept,
                   attempts, emergFile, result, exc, lastOutcome, faults,
                   orchVars, prevPages>>

\* one iteration of the loop whose page fetch raises e: the emergency
\* checkpoint is written and e is re-raised into the wrapper, which calls
\* the function again or lets e out
FetchError ==
    /\ pc = "coll_loop"
    /\ LoopContinues(empties)
    /\ \E e \in Exceptions :
        LET w1 == [wr EXCEPT ![kind] = WrapperAfter(kind, e)]
            s1 == [slept EXCEPT ![kind] = SleptAfter(kind, e)]
        IN
        /\ emergFile' = [emergFile EXCEPT
                            ![kind] = EmergencyCheckpoint(page, items, e)]
        /\ lastOutcome' = [type |-> "raise", val |-> 0, exc |-> e]
        /\ IF WrapperVerdict(kind, e) = "retry"
           THEN /\ wr' = w1
                /\ slept' = s1
                /\ pc' = "coll_start"
                /\ UNCHANGED <<exc, exit_status>>
           ELSE /\ exc' = Reraised(e)
                /\ IF mode = "run"
                   THEN OrchestratorExcept(w1, s1)
                   ELSE /\ wr' = w1
                        /\ slept' = s1
                        /\ pc' = "raised"
                        /\ UNCHANGED exit_status
    /\ fetches' = fetches + 1
    /\ faults' = faults + 1
    /\ lastReq' = page
    /\ UNCHANGED <<inputVars, kind, per_page, ckptAtCall, items, page, paced,
                   empties, attempts, ckptFile, result, all_users, upage,
                   collected, runPages, prevPages>>

HasNextCollectorNever(k) == FALSE
\* in a run, groups = get_all_groups_with_checkpoints(...) follows
\* projects = get_all_projects_with_checkpoints(...)
HasNextCollector(k) == k = "projects"

\* the loop has ended: clean up the checkpoint and return the list; in a
\* run the orchestrator goes on with the groups, then with the batches
CollectorFinish ==
    /\ pc = "coll_loop"
    /\ ~LoopContinues(empties)
    /\ ckptFile' = CleanedUp(ckptFile, kind)
    /\ emergFile' = EmergencyAfterCleanUp(emergFile, kind)
    /\ result' = items
    /\ lastOutcome' = [type |-> "return", val |-> 0, exc |-> NoExc]
    /\ IF mode = "run"
       THEN /\ collected' = [collected EXCEPT ![kind] = items]
            /\ IF HasNextCollector(kind)
               THEN /\ kind' = "groups"
                    /\ wr' = [wr EXCEPT !["groups"] = WrapperEntry("groups")]
                    /\ ckptAtCall' = ckptFile'["groups"]
                    /\ lastReq' = 0
                    /\ runPages' = {}
                    /\ pc' = "coll_start"
               ELSE /\ pc' = "batches"
                    /\ UNCHANGED <<kind, wr, ckptAtCall, lastReq, runPages>>
       ELSE /\ pc' = "returned"
            /\ UNCHANGED <<kind, wr, ckptAtCall, collected, lastReq, runPages>>
    /\ UNCHANGED <<inputVars, per_page, collVars, slept, attempts, exc,
                   faults, all_users, upage, exit_status, prevPages>>

(***************************************************************************)
(* get_users / get_users_with_batch_processing: the users loop              *)
(***************************************************************************)
\* get_users calls get_users_with_batch_processing, whose body starts
RunStart ==
    /\ pc = "run_start"
    /\ attempts' = [attempts EXCEPT !["batch"] = @ + 1,
                                    !["get_users"] =
                                        IF wr["batch"].retries = 0
                                        THEN @ + 1 ELSE @]
    /\ all_users' = <<>>
    /\ upage' = 1
    /\ kind' = "users"
    /\ pc' = "users_loop"
    /\ UNCHANGED <<inputVars, per_page, ckptAtCall, wr, slept, collVars,
                   fileVars, result, exc, lastOutcome, faults, collected,
                   exit_status, crashVars>>

UsersLoopEndsOnShortPage(got) == Len(got) < UsersPerPage
\* `if not users_page: break`
UsersLoopEnds(got) == got = <<>>

\* one iteration of `while True` whose fetch answers: an empty page ends
\* the loop and the projects collector is called with per_page=10
UsersFetch ==
    /\ pc = "users_loop"
    /\ LET got == Answer("users", upage, UsersPerPage) IN
        IF UsersLoopEnds(got)
        THEN /\ kind' = "projects"
             /\ per_page' = OrchestratorPerPage
             /\ wr' = [wr EXCEPT !["projects"] = WrapperEntry("projects")]
             /\ ckptAtCall' = ckptFile["projects"]
             /\ pc' = "coll_start"
             /\ paced' = <<>>
             /\ UNCHANGED <<all_users, upage>>
        ELSE /\ all_users' = all_users \o got
             /\ upage' = upage + 1
             /\ paced' = <<UsersDelayMs>>
             /\ UNCHANGED <<kind, per_page, wr, ckptAtCall, pc>>
    /\ UNCHANGED <<inputVars, slept, attempts, items, page, empties, fetches,
                   fileVars, result,
                   exc, lastOutcome, faults, collected, exit_status,
                   crashVars>>

\* one iteration whose fetch raises e: `raise` in the inner handler, then
\* the outer `except Exception` exits the process
UsersFetchError ==
    /\ pc = "users_loop"
    /\ \E e \in Exceptions :
        /\ exc' = e
        /\ lastOutcome' = [type |-> "raise", val |-> 0, exc |-> e]
    /\ OrchestratorExcept(wr, slept)
    /\ faults' = faults + 1
    /\ UNCHANGED <<inputVars, kind, per_page, ckptAtCall, attempts, collVars,
                   fileVars, result, all_users, upage, collected, crashVars>>

(***************************************************************************)
(* get_users_with_batch_processing: the classification of the users         *)
(***************************************************************************)
\* a string as the sequence of its characters
Str_ghost == <<"g", "h", "o", "s", "t">>
Str_bot == <<"b", "o", "t">>
Str_support == <<"s", "u", "p", "p", "o", "r", "t", "-">>

UpperCase == <<"A", "B", "C", "D", "E", "F", "G", "H", "I", "J", "K", "L", "M",
               "N", "O", "P", "Q", "R", "S", "T", "U", "V", "W", "X", "Y", "Z">>
LowerCase == <<"a", "b", "c", "d", "e", "f", "g", "h", "i", "j", "k", "l", "m",
               "n", "o", "p", "q", "r", "s", "t", "u", "v", "w", "x", "y", "z">>

lowerUnchanged(str) == str
\* str.lower()
lower(str) ==
    [i \in DOMAIN str |->
        IF \E j \in DOMAIN UpperCase : UpperCase[j] = str[i]
        THEN LowerCase[CHOOSE j \in DOMAIN UpperCase : UpperCase[j] = str[i]]
        ELSE str[i]]

\* `sub in str`
Contains(str, sub) ==
    \E i \in 0..(Len(str) - Len(sub)) : SubSeq(str, i + 1, i + Len(sub)) = sub

\* str.startswith(prefix)
StartsWith(str, prefix) ==
    /\ Len(str) >= Len(prefix)
    /\ SubSeq(str, 1, Len(prefix)) = prefix

\* the usernames, states and records of the users of the instance
UserNames ==
    { <<"a", "l", "i", "c", "e">>,
      Str_ghost,
      <<"G", "h", "o", "s", "t">>,
      <<"R", "o", "B", "O", "T", "7">>,
      <<"s", "u", "p", "p", "o", "r", "t", "-", "4", "2">>,
      <<"m", "y", "-", "s", "u", "p", "p", "o", "r", "t", "-", "1">> }
UserStates == {"active", "blocked", "blocked_pending_approval"}
UserRecords == [state : UserStates, external : BOOLEAN, username : UserNames]

\* the if/elif chain that sets is_non_billable
IsNonBillable(user) ==
    IF user.state # "active" THEN TRUE
    ELSE IF user.state = "blocked_pending_approval" THEN TRUE
    ELSE IF user.external THEN TRUE
    ELSE IF \/ user.username = Str_ghost
            \/ Contains(lower(user.username), Str_bot)
            \/ StartsWith(user.username, Str_support)
         THEN TRUE
         ELSE FALSE

BillableAfterAll(billable, batch) == billable \o batch
\* billable_users.append(user) for the users of a batch, in order
BillableAfter(billable, batch) ==
    billable \o SelectSeq(batch, LAMBDA u : ~IsNonBillable(attrs[u]))

\* non_billable_users.append(user) for the users of a batch, in order
NonBillableAfter(non_billable, batch) ==
    non_billable \o SelectSeq(batch, LAMBDA u : IsNonBillable(attrs[u]))

\* batch_users = all_users[i:batch_end]
BatchUsersOverlap(all, i) ==
    SubSeq(all, Max(1, i), Min(i + BatchSize, Len(all)))
BatchUsers(all, i) == SubSeq(all, i + 1, Min(i + BatchSize, Len(all)))

\* one turn of `for i in range(0, len(all_users), batch_size)`: the users of
\* the batch are classified, then time.sleep(1)
ClassifyBatch ==
    /\ pc = "batches"
    /\ batch_i < Len(all_users)
    /\ billable_users' = BillableAfter(billable_users,
                                        BatchUsers(all_users, batch_i))
    /\ non_billable_users' = NonBillableAfter(non_billable_users,
                                               BatchUsers(all_users, batch_i))
    /\ batch_i' = batch_i + BatchSize
    /\ batch_sleeps' = batch_sleeps + 1
    /\ UNCHANGED <<mode, size, deco, roleVars, holes, reportVars, engineVars,
                   pc, attrs, run_result>>

\* `return all_users, billable_users, non_billable_users`, through both
\* wrappers and get_users
RunReturn ==
    /\ pc = "batches"
    /\ batch_i >= Len(all_users)
    /\ run_result' = <<all_users, billable_users, non_billable_users>>
    /\ pc' = "run_returned"
    /\ UNCHANGED <<mode, size, deco, roleVars, holes, reportVars, engineVars,
                   attrs, billable_users, non_billable_users, batch_i,
                   batch_sleeps>>

(***************************************************************************)
(* get_user_roles_optimized / get_user_roles_fallback / get_user_roles      *)
(* The three functions catch every exception inside their own body, so the  *)
(* retry wrappers around them never see one.                                *)
(***************************************************************************)
\* the user is not a member of the resource
NotMember == -1
\* access levels a membership carries; 0 is also what
\* getattr(member, 'access_level', 0) gives a membership without the field
AccessLevels == {0, 10, 30, 50, 60}
Memberships == {NotMember} \cup AccessLevels

RoleFunctions ==
    {"get_user_roles_optimized", "get_user_roles_fallback", "get_user_roles"}

\* roles = {'project_roles': [], 'group_roles': [], 'max_role_level': 0,
\*          'max_role_name': ''}
EmptyProfile ==
    [project_roles |-> <<>>, group_roles |-> <<>>,
     max_role_level |-> 0, max_role_name |-> ""]

get_role_nameNoNumber(access_level) ==
    CASE access_level = 10 -> "Guest"
      [] access_level = 20 -> "Reporter"
      [] access_level = 30 -> "Developer"
      [] access_level = 40 -> "Maintainer"
      [] access_level = 50 -> "Owner"
      [] OTHER -> "Unknown"

\* access_level_map.get(access_level, f'Unknown ({access_level})')
get_role_name(access_level) ==
    CASE access_level = 10 -> "Guest"
      [] access_level = 20 -> "Reporter"
      [] access_level = 30 -> "Developer"
      [] access_level = 40 -> "Maintainer"
      [] access_level = 50 -> "Owner"
      [] OTHER -> "Unknown (" \o ToString(access_level) \o ")"

UpdateMaxLatest(r, access_level) ==
    [r EXCEPT !.max_role_level = access_level,
              !.max_role_name = get_role_name(access_level)]

\* if access_level > roles['max_role_level']: both max fields are set
UpdateMax(r, access_level) ==
    IF access_level > r.max_role_level
    THEN [r EXCEPT !.max_role_level = access_level,
                   !.max_role_name = get_role_name(access_level)]
    ELSE r

\* the entry appended for a membership
RoleEntry(id, access_level) ==
    [id |-> id, access_level |-> access_level,
     role_name |-> get_role_name(access_level)]

\* one membership found: the maximum is updated, then the entry is appended
Recorded(r, k, id, access_level) ==
    LET u == UpdateMax(r, access_level) IN
    IF k = "projects"
    THEN [u EXCEPT !.project_roles = Append(@, RoleEntry(id, access_level))]
    ELSE [u EXCEPT !.group_roles = Append(@, RoleEntry(id, access_level))]

SkipsNever(skip) == FALSE
\* `if skip_roles: return roles`
SkipsAnalysis(skip) == skip

\* user.projects.list(all=True): the projects the user has a membership of
UserProjects ==
    SelectSeq([i \in 1..Len(levels.projects) |-> i],
              LAMBDA i : levels.projects[i] # NotMember)

\* the resource kind a tier probes: groups after the direct listing,
\* projects in get_user_roles_fallback
ProbedKind(t) == IF t = "direct" THEN "groups" ELSE "projects"
\* max_groups_to_check = 500, max_projects_to_check = 100
ProbeCap(t) == IF t = "direct" THEN MaxGroupsToCheck ELSE MaxProjectsToCheck

\* one lookup on a single resource and how it ended
Lookup(k, id, outcome) == [kind |-> k, id |-> id, outcome |-> outcome]

OnLookupErrorBreak(t) == "break"
\* `except Exception as e: print(Warning ...); continue`
OnLookupError(t) == "continue"

\* `return roles`
Returned ==
    /\ pc' = "roles_returned"
    /\ UNCHANGED <<rpage, ridx, checked>>

\* the call of a role function, up to its first request
ResolverEnter ==
    /\ mode = "roles"
    /\ pc = "roles_call"
    /\ roles' = EmptyProfile
    /\ IF entry = "get_user_roles_optimized"
       THEN IF SkipsAnalysis(skip_roles)
            THEN pc' = "roles_returned" /\ tier' = "skip"
            ELSE pc' = "get_user" /\ tier' = "none"
       ELSE IF entry = "get_user_roles_fallback"
            THEN pc' = "probe_page" /\ tier' = "fallback"
            ELSE pc' = "list_all" /\ tier' = "full"
    /\ UNCHANGED <<mode, size, deco, engineVars, holes, classVars, reportVars,
                   reliable, levels, entry, skip_roles, rpage, ridx, checked, requests,
                   lookup_errors, list_errors, lookups, warned>>

\* Method 1: gl.users.get(user_id); a failure returns the empty profile
GetUser ==
    /\ pc = "get_user"
    /\ requests' = requests + 1
    /\ \/ pc' = "user_projects" /\ UNCHANGED <<lookup_errors, list_errors>>
       \/ ~reliable /\ pc' = "roles_returned" /\ lookup_errors' = TRUE
                                              /\ list_errors' = TRUE
    /\ UNCHANGED <<mode, size, deco, engineVars, holes, classVars, reportVars,
                   reliable, levels, entry, skip_roles, roles, tier, rpage, ridx,
                   checked, lookups, warned>>

\* Method 2: user.projects.list(all=True); a failure hands the call over to
\* get_user_roles_fallback, which starts from a new empty profile
ListUserProjects ==
    /\ pc = "user_projects"
    /\ requests' = requests + 1
    /\ \/ /\ tier' = "direct"
          /\ pc' = IF UserProjects = <<>> THEN "probe_page" ELSE "direct_item"
          /\ roles' = roles
       \/ /\ ~reliable
          /\ tier' = "fallback"
          /\ pc' = "probe_page"
          /\ roles' = EmptyProfile
    /\ rpage' = 1
    /\ ridx' = 1
    /\ checked' = 0
    /\ UNCHANGED <<mode, size, deco, engineVars, holes, classVars, reportVars,
                   reliable, levels, entry, skip_roles, lookup_errors, list_errors,
                   lookups, warned>>

\* one membership of the direct listing: gl.projects.get(id, lazy=True)
\* sends no request; if it raises, a warning is printed and the membership
\* is skipped
DirectItem ==
    /\ pc = "direct_item"
    /\ LET id == UserProjects[ridx] IN
        \/ /\ roles' = Recorded(roles, "projects", id, levels.projects[id])
           /\ lookups' = lookups \cup {Lookup("projects", id, "member")}
           /\ UNCHANGED <<lookup_errors, warned>>
        \/ /\ ~reliable
           /\ lookup_errors' = TRUE
           /\ lookups' = lookups \cup {Lookup("projects", id, "error")}
           /\ warned' = warned \cup {<<"projects", id>>}
           /\ UNCHANGED roles
    /\ IF ridx = Len(UserProjects)
       THEN pc' = "probe_page" /\ ridx' = 1
       ELSE pc' = pc /\ ridx' = ridx + 1
    /\ UNCHANGED <<mode, size, deco, engineVars, holes, classVars, reportVars,
                   reliable, levels, entry, skip_roles, tier, rpage, checked, requests,
                   list_errors>>

\* one turn of `while <kind>_checked < max_<kind>_to_check`: the page is
\* listed; an empty page or a failed listing ends the loop
ProbePage ==
    /\ pc = "probe_page"
    /\ IF checked >= ProbeCap(tier)
       THEN Returned /\ UNCHANGED <<requests, lookup_errors, list_errors>>
       ELSE /\ requests' = requests + 1
            /\ \/ /\ ListPage(ProbedKind(tier), rpage, RolesPerPage) = <<>>
                  /\ Returned
                  /\ UNCHANGED <<lookup_errors, list_errors>>
               \/ /\ ListPage(ProbedKind(tier), rpage, RolesPerPage) # <<>>
                  /\ pc' = "probe_item"
                  /\ ridx' = 1
                  /\ UNCHANGED <<rpage, checked, lookup_errors, list_errors>>
               \/ /\ ~reliable
                  /\ Returned
                  /\ lookup_errors' = TRUE
                  /\ list_errors' = TRUE
    /\ UNCHANGED <<mode, size, deco, engineVars, holes, classVars, reportVars,
                   reliable, levels, entry, skip_roles, roles, tier, lookups, warned>>

\* one resource of the page: counted, and unless the cap is reached its
\* membership of the user is looked up (<resource>.members.get). The lookup
\* answers a member, or raises GitlabGetError (silently taken as "not a
\* member", whatever made the request fail), or raises something else
\* (warning)
ProbeItem ==
    /\ pc = "probe_item"
    /\ checked' = checked + 1
    /\ LET k == ProbedKind(tier)
           got == ListPage(k, rpage, RolesPerPage)
           id == got[ridx]
           next == /\ IF ridx = Len(got)
                      THEN pc' = "probe_page" /\ rpage' = rpage + 1
                                              /\ ridx' = ridx
                      ELSE pc' = pc /\ rpage' = rpage /\ ridx' = ridx + 1
       IN
       IF checked' >= ProbeCap(tier)
       THEN /\ pc' = "probe_page"
            /\ rpage' = rpage + 1
            /\ UNCHANGED <<roles, ridx, requests, lookup_errors, lookups,
                           warned>>
       ELSE /\ requests' = requests + 1
            /\ \/ /\ levels[k][id] # NotMember
                  /\ roles' = Recorded(roles, k, id, levels[k][id])
                  /\ lookups' = lookups \cup {Lookup(k, id, "member")}
                  /\ UNCHANGED <<lookup_errors, warned>>
                  /\ next
               \/ /\ levels[k][id] = NotMember
                  /\ lookups' = lookups \cup {Lookup(k, id, "not_member")}
                  /\ UNCHANGED <<roles, lookup_errors, warned>>
                  /\ next
               \/ /\ ~reliable
                  /\ lookups' = lookups \cup {Lookup(k, id, "get_error")}
                  /\ lookup_errors' = TRUE
                  /\ UNCHANGED <<roles, warned>>
                  /\ next
               \/ /\ ~reliable
                  /\ lookups' = lookups \cup {Lookup(k, id, "error")}
                  /\ lookup_errors' = TRUE
                  /\ warned' = warned \cup {<<k, id>>}
                  /\ UNCHANGED roles
                  /\ IF OnLookupError(tier) = "continue"
                     THEN next
                     ELSE pc' = "roles_returned" /\ UNCHANGED <<rpage, ridx>>
    /\ UNCHANGED <<mode, size, deco, engineVars, holes, classVars, reportVars,
                   reliable, levels, entry, skip_roles, tier, list_errors>>

\* the profile get_user_roles_fallback returns when no listing and no lookup
\* fails, from resource i of the listing on
RECURSIVE ProbedWithoutErrors(_, _, _)
ProbedWithoutErrors(r, t, i) ==
    LET k == ProbedKind(t) IN
    IF i > size[k] \/ i >= ProbeCap(t) THEN r
    ELSE ProbedWithoutErrors(
            IF levels[k][i] # NotMember
            THEN Recorded(r, k, i, levels[k][i]) ELSE r,
            t, i + 1)

\* get_user_roles: gl.projects.list(all=True), later gl.groups.list(all=True);
\* a failure of either ends the call with what was found
ListAll ==
    /\ pc = "list_all"
    /\ requests' = requests + 1
    /\ \/ /\ pc' = IF size[kind] = 0
                   THEN IF kind = "projects" THEN pc ELSE "roles_returned"
                   ELSE "member_list"
          /\ kind' = IF size[kind] = 0 THEN "groups" ELSE kind
          /\ ridx' = 1
          /\ UNCHANGED <<lookup_errors, list_errors>>
       \/ /\ ~reliable
          /\ pc' = "roles_returned"
          /\ lookup_errors' = TRUE
          /\ list_errors' = TRUE
          /\ UNCHANGED <<kind, ridx>>
    /\ UNCHANGED <<mode, size, deco, per_page, ckptAtCall, wr, slept,
                   attempts, collVars, fileVars, result, exc, lastOutcome,
                   faults, orchVars, crashVars, holes, classVars, reportVars,
                   reliable, levels, entry, skip_roles, roles, tier, rpage, checked,
                   lookups, warned>>

\* get_user_roles: <resource>.members.list(all=True) of one resource and
\* the search of the user in it; a failure is printed and skips the resource
MemberList ==
    /\ pc = "member_list"
    /\ requests' = requests + 1
    /\ \/ /\ levels[kind][ridx] # NotMember
          /\ roles' = Recorded(roles, kind, ridx, levels[kind][ridx])
          /\ lookups' = lookups \cup {Lookup(kind, ridx, "member")}
          /\ UNCHANGED <<lookup_errors, warned>>
       \/ /\ levels[kind][ridx] = NotMember
          /\ lookups' = lookups \cup {Lookup(kind, ridx, "not_member")}
          /\ UNCHANGED <<roles, lookup_errors, warned>>
       \/ /\ ~reliable
          /\ lookup_errors' = TRUE
          /\ lookups' = lookups \cup {Lookup(kind, ridx, "error")}
          /\ warned' = warned \cup {<<kind, ridx>>}
          /\ UNCHANGED roles
    /\ IF ridx < size[kind]
       THEN ridx' = ridx + 1 /\ pc' = pc /\ kind' = kind
       ELSE /\ ridx' = 1
            /\ kind' = "groups"
            /\ pc' = IF kind = "projects" THEN "list_all" ELSE "roles_returned"
    /\ UNCHANGED <<mode, size, deco, per_page, ckptAtCall, wr, slept,
                   attempts, collVars, fileVars, result, exc, lastOutcome,
                   faults, orchVars, crashVars, holes, classVars, reportVars,
                   reliable, levels, entry, skip_roles, tier, rpage, checked,
                   list_errors>>

(***************************************************************************)
(* Specifications                                                           *)
(***************************************************************************)
DecoArgs(m, d) == [max_retries |-> m, delay |-> d]

\* decorator arguments of the frames of main.py
ProgramDeco(unitArgs) ==
    [f \in Frames |->
        CASE f \in CollectorKinds ->
                DecoArgs(CollectorMaxRetries, CollectorDelay)
          [] f = "unit" -> unitArgs
          [] OTHER -> DecoArgs(DefaultMaxRetries, DefaultDelay)]

InitEngine ==
    /\ wr = [f \in Frames |-> WrapperEntry(f)]
    /\ slept = [f \in Frames |-> <<>>]
    /\ attempts = [f \in Frames |-> 0]
    /\ items = <<>>
    /\ paced = <<>>
    /\ page = 1
    /\ empties = 0
    /\ emergFile = [k \in CollectorKinds |-> NoFile]
    /\ result = NoResult
    /\ exc = NoExc
    /\ lastOutcome = [type |-> "none", val |-> 0, exc |-> NoExc]
    /\ fetches = 0
    /\ faults = 0
    /\ all_users = <<>>
    /\ upage = 1
    /\ collected = [k \in CollectorKinds |-> NoResult]
    /\ exit_status = -1
    /\ lastReq = 0
    /\ runPages = {}
    /\ prevPages = {}

\* no role function is called
InitRolesIdle ==
    /\ levels = [projects |-> <<>>, groups |-> <<>>]
    /\ entry = "none"
    /\ skip_roles = FALSE
    /\ roles = EmptyProfile
    /\ tier = "none"
    /\ rpage = 1
    /\ ridx = 1
    /\ checked = 0
    /\ requests = 0
    /\ lookup_errors = FALSE
    /\ list_errors = FALSE
    /\ lookups = {}
    /\ warned = {}
    /\ reliable = TRUE

\* the platform answers every page as listed
InitNoHoles == holes = {}

\* no user is classified yet
InitClassIdle ==
    /\ billable_users = <<>>
    /\ non_billable_users = <<>>
    /\ batch_i = 0
    /\ batch_sleeps = 0
    /\ run_result = NoResult

\* no report is generated
InitReportIdle ==
    /\ users_len = 0
    /\ roles_arg = FALSE
    /\ include_roles = FALSE
    /\ max_role_only = FALSE
    /\ performance_mode = FALSE
    /\ failing = {}
    /\ found = EmptyProfile
    /\ ri = 0
    /\ user_data = <<>>
    /\ calls = <<>>
    /\ prompted = FALSE

InitNoUsers == attrs = <<>>

InitCommon ==
    /\ InitEngine
    /\ InitRolesIdle
    /\ InitNoHoles
    /\ InitNoUsers
    /\ InitClassIdle
    /\ InitReportIdle

\* the generic unit of work under retry_transient_errors(m, d)
InitRetry ==
    /\ mode = "unit"
    /\ pc = "unit_call"
    /\ kind = "projects"
    /\ size = [k \in Kinds |-> 0]
    /\ per_page = 1
    /\ \E m \in 0..MaxM, d \in 1..MaxD : deco = ProgramDeco(DecoArgs(m, d))
    /\ ckptFile = [k \in CollectorKinds |-> NoFile]
    /\ ckptAtCall = NoFile
    /\ InitCommon

NextRetry == UnitAttempt

SpecRetry == InitRetry /\ [][NextRetry]_vars

\* one call of a collector on a backing collection of up to MaxN entities
InitCollector ==
    /\ mode = "collector"
    /\ pc = "coll_start"
    /\ kind \in CollectorKinds
    /\ \E n \in 0..MaxN : size = [k \in Kinds |-> IF k = kind THEN n ELSE 0]
    /\ per_page \in 1..MaxPerPage
    /\ deco = ProgramDeco(DecoArgs(DefaultMaxRetries, DefaultDelay))

\* ... with no checkpoint on disk, and fetch errors
Init ==
    /\ InitCollector
    /\ ckptFile = [k \in CollectorKinds |-> NoFile]
    /\ ckptAtCall = NoFile
    /\ InitCommon

Next ==
    \/ CollectorStart
    \/ FetchPage
    \/ FetchError
    \/ CollectorFinish

Spec == Init /\ [][Next]_vars

\* a checkpoint file left by an earlier crawl that had accumulated the
\* p - 1 full pages before page p
LeftoverCheckpoint(p, pp) == [last_page |-> p, total |-> (p - 1) * pp]

\* ... with or without a checkpoint on disk, and no fetch errors
InitResume ==
    /\ InitCollector
    /\ \E f \in {NoFile} \cup
                {LeftoverCheckpoint(p, per_page) : p \in 1..MaxStartPage} :
        /\ ckptFile = [k \in CollectorKinds |-> IF k = kind THEN f ELSE NoFile]
        /\ ckptAtCall = f
    /\ InitCommon

NextResume ==
    \/ CollectorStart
    \/ FetchPage
    \/ CollectorFinish

\* ... with no checkpoint on disk, no fetch errors, and pages the platform
\* answers empty although entities follow
InitGaps ==
    /\ InitCollector
    /\ ckptFile = [k \in CollectorKinds |-> NoFile]
    /\ ckptAtCall = NoFile
    /\ InitEngine
    /\ InitRolesIdle
    /\ holes \in SUBSET (1..MaxHolePage)
    /\ InitNoUsers
    /\ InitClassIdle
    /\ InitReportIdle

SpecGaps == InitGaps /\ [][NextResume]_vars

\* one collector called with per_page = 1 on a collection of about as many
\* pages as the period of the long pause, from page 1 or from a checkpoint,
\* with no fetch errors
InitPacing ==
    /\ mode = "collector"
    /\ pc = "coll_start"
    /\ kind \in CollectorKinds
    /\ \E n \in (LongPauseEvery - 2)..(LongPauseEvery + 1) :
        size = [k \in Kinds |-> IF k = kind THEN n ELSE 0]
    /\ per_page = 1
    /\ deco = ProgramDeco(DecoArgs(DefaultMaxRetries, DefaultDelay))
    /\ \E f \in {NoFile, LeftoverCheckpoint(ProjectsCheckpointEvery + 1, 1)} :
        /\ ckptFile = [k \in CollectorKinds |-> IF k = kind THEN f ELSE NoFile]
        /\ ckptAtCall = f
    /\ InitCommon

SpecPacing == InitPacing /\ [][NextResume]_vars

\* the loop is sequential code: a call that can take a step takes it
SpecResume == InitResume /\ [][NextResume]_vars /\ WF_vars(NextResume)

(***************************************************************************)
(* Interruption: the process is terminated while a collector runs, and a    *)
(* new process calls the collector again.                                   *)
(***************************************************************************)
\* the process is killed at any point of the call
Interrupt ==
    /\ mode = "collector"
    /\ pc \in {"coll_start", "coll_loop"}
    /\ pc' = "dead"
    /\ UNCHANGED <<inputVars, kind, per_page, ckptAtCall, wr, slept, attempts,
                   collVars, fileVars, result, exc, lastOutcome, faults,
                   orchVars, crashVars>>

\* the process is killed inside an iteration, after the page was accumulated
\* and before the checkpoint that is due for it is written (for a page with
\* no checkpoint due, Interrupt after FetchPage leaves the same disk)
InterruptBeforeCheckpoint ==
    /\ mode = "collector"
    /\ pc = "coll_loop"
    /\ LoopContinues(empties)
    /\ CheckpointDue(kind, page)
    /\ LET got == Answer(kind, page, per_page) IN
        /\ got # <<>>
        /\ empties' = EmptiesAfter(empties, got)
        /\ items' = AccumulatedAfter(items, got)
    /\ fetches' = fetches + 1
    /\ runPages' = runPages \cup {page}
    /\ lastReq' = page
    /\ pc' = "dead"
    /\ UNCHANGED <<inputVars, kind, per_page, ckptAtCall, wr, slept, attempts,
                   page, paced, fileVars, result, exc, lastOutcome, faults, orchVars,
                   prevPages>>

\* a new process calls the collector: fresh wrapper, the files as left
Restart ==
    /\ pc = "dead"
    /\ pc' = "coll_start"
    /\ wr' = [wr EXCEPT ![kind] = WrapperEntry(kind)]
    /\ slept' = [slept EXCEPT ![kind] = <<>>]
    /\ attempts' = [attempts EXCEPT ![kind] = 0]
    /\ ckptAtCall' = ckptFile[kind]
    /\ faults' = 0
    /\ lastOutcome' = [type |-> "none", val |-> 0, exc |-> NoExc]
    /\ lastReq' = 0
    /\ prevPages' = runPages
    /\ runPages' = {}
    /\ UNCHANGED <<inputVars, kind, per_page, collVars, fileVars, result, exc,
                   orchVars>>

\* the collector has returned and a later crawl calls it again: fresh
\* wrapper, the files as the first call left them
CallAgain ==
    /\ mode = "collector"
    /\ pc = "returned"
    /\ prevPages = {}
    /\ pc' = "coll_start"
    /\ wr' = [wr EXCEPT ![kind] = WrapperEntry(kind)]
    /\ slept' = [slept EXCEPT ![kind] = <<>>]
    /\ attempts' = [attempts EXCEPT ![kind] = 0]
    /\ ckptAtCall' = ckptFile[kind]
    /\ faults' = 0
    /\ lastOutcome' = [type |-> "none", val |-> 0, exc |-> NoExc]
    /\ lastReq' = 0
    /\ prevPages' = runPages \cup {0}
    /\ runPages' = {}
    /\ UNCHANGED <<inputVars, kind, per_page, collVars, fileVars, result, exc,
                   orchVars>>

\* a checkpoint file that holds a JSON object without 'last_page'
FileWithoutLastPage == [total |-> 0]

\* the last_page values a checkpoint written by a collector can hold: one
\* more than a multiple of the checkpoint period (and 1)
DiskStartPages == {p \in 1..MaxStartPage : p % GroupsCheckpointEvery = 1}

\* what a call may find at the path of its checkpoint file
DiskFiles(pp) ==
    {NoFile, MalformedFile, FileWithoutLastPage}
        \cup {LeftoverCheckpoint(p, pp) : p \in DiskStartPages}

\* one collector called with the largest page size, with any file at its
\* checkpoint path, fetch errors, and a second call after the first has
\* returned
InitDisk ==
    /\ InitCollector
    /\ per_page = MaxPerPage
    /\ \E f \in DiskFiles(per_page) :
        /\ ckptFile = [k \in CollectorKinds |-> IF k = kind THEN f ELSE NoFile]
        /\ ckptAtCall = f
    /\ InitCommon

NextDisk ==
    \/ CollectorStart
    \/ FetchPage
    \/ FetchError
    \/ CollectorFinish
    \/ CallAgain

SpecDisk == InitDisk /\ [][NextDisk]_vars

NextCrash ==
    \/ CollectorStart
    \/ FetchPage
    \/ FetchError
    \/ CollectorFinish
    \/ Interrupt
    \/ InterruptBeforeCheckpoint
    \/ Restart

\* one collector, with fetch errors, interruptions and new runs
SpecCrash == Init /\ [][NextCrash]_vars

\* one call of a role function for one user; the listings give the
\* resources in the order of their positions in `levels`
InitRoles ==
    /\ mode = "roles"
    /\ pc = "roles_call"
    /\ kind = "projects"
    /\ \E np \in 0..MaxProjects, ng \in 0..MaxGroups :
        /\ size = [k \in Kinds |-> IF k = "projects" THEN np
                                   ELSE IF k = "groups" THEN ng ELSE 0]
        /\ \E lp \in [1..np -> Memberships], lg \in [1..ng -> Memberships] :
            levels = [projects |-> lp, groups |-> lg]
    /\ per_page = RolesPerPage
    /\ deco = ProgramDeco(DecoArgs(DefaultMaxRetries, DefaultDelay))
    /\ ckptFile = [k \in CollectorKinds |-> NoFile]
    /\ ckptAtCall = NoFile
    /\ InitEngine
    /\ entry \in RoleFunctions
    /\ skip_roles \in IF entry = "get_user_roles_optimized"
                      THEN BOOLEAN ELSE {FALSE}
    /\ roles = EmptyProfile
    /\ tier = "none"
    /\ rpage = 1
    /\ ridx = 1
    /\ checked = 0
    /\ requests = 0
    /\ lookup_errors = FALSE
    /\ list_errors = FALSE
    /\ lookups = {}
    /\ warned = {}
    /\ reliable = FALSE
    /\ InitNoHoles
    /\ InitNoUsers
    /\ InitClassIdle
    /\ InitReportIdle

\* an instance whose size is next to a cap of the probing loops
NearCap(cap) == {cap - 1, cap, cap + 1}

\* one call of a role function on an instance with about as many projects
\* and groups as the caps, where the user is a Developer of the last project
\* or of none and of the last group or of none, and every request answers
InitRolesLarge ==
    /\ mode = "roles"
    /\ pc = "roles_call"
    /\ kind = "projects"
    /\ \E np \in NearCap(MaxProjectsToCheck), ng \in NearCap(MaxGroupsToCheck) :
        /\ size = [k \in Kinds |-> IF k = "projects" THEN np
                                   ELSE IF k = "groups" THEN ng ELSE 0]
        /\ \E mp \in {0, np}, mg \in {0, ng} :
            levels = [projects |-> [i \in 1..np |->
                                        IF i = mp THEN 30 ELSE NotMember],
                      groups |-> [i \in 1..ng |->
                                        IF i = mg THEN 30 ELSE NotMember]]
    /\ per_page = RolesPerPage
    /\ deco = ProgramDeco(DecoArgs(DefaultMaxRetries, DefaultDelay))
    /\ ckptFile = [k \in CollectorKinds |-> NoFile]
    /\ ckptAtCall = NoFile
    /\ InitEngine
    /\ entry \in RoleFunctions
    /\ skip_roles = FALSE
    /\ roles = EmptyProfile
    /\ tier = "none"
    /\ rpage = 1
    /\ ridx = 1
    /\ checked = 0
    /\ requests = 0
    /\ lookup_errors = FALSE
    /\ list_errors = FALSE
    /\ lookups = {}
    /\ warned = {}
    /\ reliable = TRUE
    /\ InitNoHoles
    /\ InitNoUsers
    /\ InitClassIdle
    /\ InitReportIdle

NextRoles ==
    \/ ResolverEnter
    \/ GetUser
    \/ ListUserProjects
    \/ DirectItem
    \/ ProbePage
    \/ ProbeItem
    \/ ListAll
    \/ MemberList

SpecRoles == InitRoles /\ [][NextRoles]_vars

SpecRolesLarge == InitRolesLarge /\ [][NextRoles]_vars

\* the users of a whole run: odd ids are plain active users, even ids are
\* the ghost user
RunUser(i) ==
    [state |-> "active", external |-> FALSE,
     username |-> IF i % 2 = 1 THEN <<"a", "l", "i", "c", "e">> ELSE Str_ghost]

\* a whole run: users, then projects, then groups, then the classification
InitRun ==
    /\ mode = "run"
    /\ pc = "run_start"
    /\ kind = "users"
    /\ size \in [Kinds -> 0..MaxRunN]
    /\ per_page = OrchestratorPerPage
    /\ deco = ProgramDeco(DecoArgs(DefaultMaxRetries, DefaultDelay))
    /\ ckptFile = [k \in CollectorKinds |-> NoFile]
    /\ ckptAtCall = NoFile
    /\ InitEngine
    /\ InitRolesIdle
    /\ InitNoHoles
    /\ attrs = [i \in 1..size["users"] |-> RunUser(i)]
    /\ InitClassIdle
    /\ InitReportIdle

NextRun ==
    \/ RunStart
    \/ UsersFetch
    \/ UsersFetchError
    \/ CollectorStart
    \/ FetchPage
    \/ FetchError
    \/ CollectorFinish
    \/ ClassifyBatch
    \/ RunReturn

SpecRun == InitRun /\ [][NextRun]_vars

\* a whole run with no fetch errors on an instance without projects and
\* groups, whose users have any fields
InitClassify ==
    /\ mode = "run"
    /\ pc = "run_start"
    /\ kind = "users"
    /\ \E n \in 0..MaxClassUsers :
        /\ size = [k \in Kinds |-> IF k = "users" THEN n ELSE 0]
        /\ attrs \in [1..n -> UserRecords]
    /\ per_page = OrchestratorPerPage
    /\ deco = ProgramDeco(DecoArgs(DefaultMaxRetries, DefaultDelay))
    /\ ckptFile = [k \in CollectorKinds |-> NoFile]
    /\ ckptAtCall = NoFile
    /\ InitEngine
    /\ InitRolesIdle
    /\ InitNoHoles
    /\ InitClassIdle
    /\ InitReportIdle

NextClassify ==
    \/ RunStart
    \/ UsersFetch
    \/ CollectorStart
    \/ FetchPage
    \/ CollectorFinish
    \/ ClassifyBatch
    \/ RunReturn

SpecClassify == InitClassify /\ [][NextClassify]_vars

\* user counts next to the page size of the users loop and to the batch size
UserCounts ==
    {0, 1, UsersPerPage, UsersPerPage + 1, BatchSize - 1, BatchSize,
     BatchSize + 1, 2 * BatchSize, 2 * BatchSize + 1}

\* a whole run with no fetch errors on an instance without projects and
\* groups, with few or many users, pages the platform answers empty, and a
\* projects checkpoint left on disk or none
InitUsers ==
    /\ mode = "run"
    /\ pc = "run_start"
    /\ kind = "users"
    /\ \E n \in UserCounts :
        /\ size = [k \in Kinds |-> IF k = "users" THEN n ELSE 0]
        /\ attrs = [i \in 1..n |-> RunUser(i)]
    /\ per_page = OrchestratorPerPage
    /\ deco = ProgramDeco(DecoArgs(DefaultMaxRetries, DefaultDelay))
    /\ \E f \in {NoFile,
                 LeftoverCheckpoint(ProjectsCheckpointEvery + 1,
                                    OrchestratorPerPage)} :
        ckptFile = [k \in CollectorKinds |->
                        IF k = "projects" THEN f ELSE NoFile]
    /\ ckptAtCall = NoFile
    /\ InitEngine
    /\ InitRolesIdle
    /\ holes \in SUBSET (1..MaxHolePage)
    /\ InitClassIdle
    /\ InitReportIdle

SpecUsers == InitUsers /\ [][NextClassify]_vars

(***************************************************************************)
(* The report: generate_report and generate_report_with_performance_mode.   *)
(* The resolver call of the loop is taken by its outcome: the profile it    *)
(* returns, or an exception.                                                *)
(***************************************************************************)

PerformanceModeFrom500(roles_on, n) == roles_on /\ n >= PerformanceThreshold

\* performance_mode = include_roles and len(users) > 500
PerformanceMode(roles_on, n) == roles_on /\ n > PerformanceThreshold

PromptNeededWhateverMode(roles_on, n, perf) ==
    roles_on /\ n > PromptThreshold

\* if include_roles and len(users) > 1000 and not performance_mode
PromptNeeded(roles_on, n, perf) ==
    roles_on /\ n > PromptThreshold /\ ~perf

\* if response != 'y': include_roles = False
AfterPrompt(roles_on, response) ==
    IF response # "y" THEN FALSE ELSE roles_on

\* the fields of user_info the model keeps: the id, the role keys that are
\* set and their values ('' is written <<>> for the three joined lists)
UserInfo(i) ==
    [id |-> i, keys |-> {}, max_role |-> "", project_roles |-> <<>>,
     group_roles |-> <<>>, all_roles |-> <<>>]

\* f"{role['project_name']} ({role['role_name']})" for each entry
Formatted(k, entries) ==
    [j \in 1..Len(entries) |-> <<k, entries[j].id, entries[j].role_name>>]

\* the try block after the resolver has returned r
WithRoles(user_info, r, only) ==
    IF only
    THEN [user_info EXCEPT !.keys = {"max_role"},
                           !.max_role = r.max_role_name]
    ELSE [user_info EXCEPT
            !.keys = {"max_role", "project_roles", "group_roles", "all_roles"},
            !.max_role = r.max_role_name,
            !.project_roles = Formatted("projects", r.project_roles),
            !.group_roles = Formatted("groups", r.group_roles),
            !.all_roles = Formatted("projects", r.project_roles)
                            \o Formatted("groups", r.group_roles)]

OnResolveErrorNoFields(user_info, only) == user_info

\* except Exception: the role fields are set to ''
OnResolveError(user_info, only) ==
    IF only
    THEN [user_info EXCEPT !.keys = {"max_role"}, !.max_role = ""]
    ELSE [user_info EXCEPT
            !.keys = {"max_role", "project_roles", "group_roles", "all_roles"},
            !.max_role = "", !.project_roles = <<>>, !.group_roles = <<>>,
            !.all_roles = <<>>]

\* what get_user_roles_optimized(gl, user.id, skip_roles=skip) returns
Resolved(skip) == IF SkipsAnalysis(skip) THEN EmptyProfile ELSE found

\* generate_report computes performance_mode and calls
\* generate_report_with_performance_mode
GenerateReport ==
    /\ mode = "report"
    /\ pc = "report_call"
    /\ performance_mode' = PerformanceMode(include_roles, users_len)
    /\ pc' = "report_entered"
    /\ UNCHANGED <<mode, size, deco, roleVars, holes, classVars, engineVars,
                   users_len, roles_arg, include_roles, max_role_only,
                   failing, found, ri, user_data, calls, prompted>>

\* the test before the loop: the prompt is shown or not
ReportEnter ==
    /\ pc = "report_entered"
    /\ IF PromptNeeded(include_roles, users_len, performance_mode)
       THEN pc' = "report_prompt" /\ prompted' = TRUE
       ELSE pc' = "report_loop" /\ UNCHANGED prompted
    /\ UNCHANGED <<mode, size, deco, roleVars, holes, classVars, engineVars,
                   users_len, roles_arg, include_roles, max_role_only,
                   performance_mode, failing, found, ri, user_data, calls>>

\* input() returns
PromptAnswer ==
    /\ pc = "report_prompt"
    /\ \E response \in {"y", "n"} :
        include_roles' = AfterPrompt(include_roles, response)
    /\ pc' = "report_loop"
    /\ UNCHANGED <<mode, size, deco, roleVars, holes, classVars, engineVars,
                   users_len, roles_arg, max_role_only, performance_mode,
                   failing, found, ri, user_data, calls, prompted>>

\* one iteration of `for i, user in enumerate(users)`
ReportUser ==
    /\ pc = "report_loop"
    /\ ri < users_len
    /\ LET user_info == UserInfo(ri + 1) IN
        IF include_roles
        THEN /\ calls' = Append(calls, performance_mode)
             /\ user_data' = Append(user_data,
                    IF (ri + 1) \in failing
                          /\ ~SkipsAnalysis(performance_mode)
                    THEN OnResolveError(user_info, max_role_only)
                    ELSE WithRoles(user_info, Resolved(performance_mode),
                                   max_role_only))
        ELSE /\ user_data' = Append(user_data, user_info)
             /\ UNCHANGED calls
    /\ ri' = ri + 1
    /\ UNCHANGED <<mode, size, deco, roleVars, holes, classVars, engineVars,
                   pc, users_len, roles_arg, include_roles, max_role_only,
                   performance_mode, failing, found, prompted>>

\* df = pd.DataFrame(user_data); return df
ReportReturn ==
    /\ pc = "report_loop"
    /\ ri >= users_len
    /\ pc' = "report_returned"
    /\ UNCHANGED <<mode, size, deco, roleVars, holes, classVars, engineVars,
                   reportVars>>

\* user counts next to the two thresholds, and small ones
ReportSizes ==
    (0..MaxReportUsers)
        \cup {PerformanceThreshold, PerformanceThreshold + 1,
              PromptThreshold, PromptThreshold + 1}

\* profiles a full resolution returns
FoundProfiles ==
    { EmptyProfile,
      Recorded(EmptyProfile, "projects", 1, 30),
      Recorded(Recorded(EmptyProfile, "projects", 1, 30), "groups", 1, 50) }

\* one call of generate_report (mode "report") or of
\* generate_report_with_performance_mode (mode "report_direct", any
\* performance_mode); the resolution raises for the users of `failing`
InitReport ==
    /\ mode \in {"report", "report_direct"}
    /\ pc = IF mode = "report" THEN "report_call" ELSE "report_entered"
    /\ kind = "users"
    /\ size = [k \in Kinds |-> 0]
    /\ per_page = UsersPerPage
    /\ deco = ProgramDeco(DecoArgs(DefaultMaxRetries, DefaultDelay))
    /\ ckptFile = [k \in CollectorKinds |-> NoFile]
    /\ ckptAtCall = NoFile
    /\ InitEngine
    /\ InitRolesIdle
    /\ InitNoHoles
    /\ InitNoUsers
    /\ InitClassIdle
    /\ users_len \in ReportSizes
    /\ roles_arg \in BOOLEAN
    /\ include_roles = roles_arg
    /\ max_role_only \in BOOLEAN
    /\ performance_mode \in IF mode = "report" THEN {FALSE} ELSE BOOLEAN
    /\ IF ~roles_arg
       THEN failing = {} /\ found = EmptyProfile
       ELSE IF users_len <= MaxReportUsers
       THEN failing \in SUBSET (1..users_len) /\ found \in FoundProfiles
       ELSE /\ failing \in {{}, {1, users_len}}
            /\ found = Recorded(EmptyProfile, "projects", 1, 30)
    /\ ri = 0
    /\ user_data = <<>>
    /\ calls = <<>>
    /\ prompted = FALSE

NextReport ==
    \/ GenerateReport
    \/ ReportEnter
    \/ PromptAnswer
    \/ ReportUser
    \/ ReportReturn

SpecReport == InitReport /\ [][NextReport]_vars


(***************************************************************************)
(* The uninterrupted crawl as a function: the loop of a collector run from  *)
(* page p with c consecutive empty pages, acc accumulated and the normal    *)
(* checkpoints `written` so far, with no fetch error.                       *)
(***************************************************************************)
RECURSIVE CrawlFrom(_, _, _, _)
CrawlFrom(p, c, acc, written) ==
    IF ~LoopContinues(c)
    THEN [result |-> acc, written |-> written]
    ELSE LET got == ListPage(kind, p, per_page)
             acc2 == AccumulatedAfter(acc, got)
         IN CrawlFrom(p + 1, EmptiesAfter(c, got), acc2,
                      IF got # <<>> /\ CheckpointDue(kind, p)
                      THEN written \cup {NormalCheckpoint(p, acc2)}
                      ELSE written)

UninterruptedCrawl == CrawlFrom(1, 0, <<>>, {})

(***************************************************************************)
(* Properties                                                               *)
(***************************************************************************)
CeilDiv(n, d) == (n + d - 1) \div d

\* the frame whose retry wrapper is the nearest around the fetches of kind k
RetryFrame(k) == IF k = "users" THEN "batch" ELSE k

\* C1: a collector call that started without a checkpoint file and returns
\* has every entity of the static backing collection in the returned list,
\* also when attempts of the call were retried after a transient error.
C1_ReturnsEveryEntity ==
    (mode = "collector" /\ pc = "returned" /\ ckptAtCall = NoFile)
        => (1..size[kind]) \subseteq IdSet(result)

\* C2: a collector run started from a normal checkpoint that the
\* uninterrupted crawl of the same collection wrote ends with the same set
\* of ids as the uninterrupted crawl returns.
C2_ResumeEqualsUninterrupted ==
    (pc = "returned" /\ ckptAtCall \in UninterruptedCrawl.written)
        => IdSet(result) = IdSet(UninterruptedCrawl.result)

\* C3: when the first k <= m attempts raise a transient error and attempt
\* k + 1 succeeds, the wrapper returns that result and has slept exactly
\* d, 2d, 4d, ..., 2^(k-1) d, in that order.
C3_BackoffSchedule ==
    (mode = "unit" /\ pc = "returned") =>
        LET k == attempts["unit"] - 1 IN
        /\ k <= deco["unit"].max_retries
        /\ k = wr["unit"].retries
        /\ result = <<lastOutcome.val>>
        /\ slept["unit"] = [i \in 1..k |-> 2^(i - 1) * deco["unit"].delay]

C3_Witness ==
    /\ mode = "unit"
    /\ pc = "returned"
    /\ deco["unit"] = DecoArgs(DefaultMaxRetries, DefaultDelay)
    /\ attempts["unit"] = 4
    /\ slept["unit"] = <<1, 2, 4>>

C5_FatalPropagatesAtOnce ==
    [][(/\ mode = "unit"
        /\ attempts'["unit"] = attempts["unit"] + 1
        /\ lastOutcome'.type = "raise"
        /\ ~IsTransient(lastOutcome'.exc))
       => (/\ pc' = "raised"
           /\ exc' = lastOutcome'.exc
           /\ slept' = slept
           /\ wr' = wr)]_vars

C5_Witness ==
    /\ mode = "unit"
    /\ pc = "raised"
    /\ ~IsTransient(exc)
    /\ attempts["unit"] = 1
    /\ slept["unit"] = <<>>

\* C6: the run aborts on a transient page-fetch error of users, projects
\* or groups only once the retries of the wrapper around that work are
\* used up.
C6_TransientRetriedBeforeAbort ==
    (mode = "run" /\ pc = "exited" /\ IsTransient(exc)) =>
        wr[RetryFrame(kind)].retries > deco[RetryFrame(kind)].max_retries

\* the page fetches a collector attempt that starts at page s can issue:
\* the non-empty pages from s on, then the empty pages that end the loop
FetchBudget(s) ==
    Max(0, CeilDiv(size[kind], per_page) - s + 1) + MaxConsecutiveEmpty

\* C7: with a finite static collection and no fetch errors a collector
\* call returns, from any start page: it never fetches more pages than the
\* non-empty ones left plus the empty-page threshold, and it reaches the
\* return.
C7_Terminates ==
    /\ [](pc = "coll_loop" => fetches <= FetchBudget(StartPage(ckptAtCall)))
    /\ <>(pc = "returned")

C7_Witness ==
    /\ pc = "returned"
    /\ ckptAtCall # NoFile
    /\ 1 < StartPage(ckptAtCall)
    /\ result # <<>>

\* C8 as claimed: without a checkpoint and without fetch errors a
\* collector call issues ceil(N / per_page) + empty_threshold - 1 fetches.
C8_FetchCountClaimed ==
    (pc = "returned" /\ ckptAtCall = NoFile) =>
        fetches = CeilDiv(size[kind], per_page) + MaxConsecutiveEmpty - 1

\* C8 as amended: it issues ceil(N / per_page) + empty_threshold fetches.
C8_FetchCount ==
    (pc = "returned" /\ ckptAtCall = NoFile) =>
        fetches = CeilDiv(size[kind], per_page) + MaxConsecutiveEmpty

C8_Witness ==
    /\ pc = "returned"
    /\ ckptAtCall = NoFile
    /\ size[kind] = 11
    /\ per_page = 2
    /\ fetches = 9

\* C9: after a collector call has returned, neither the normal nor the
\* emergency checkpoint file of its kind is on disk.
C9_NoCheckpointLeft ==
    (mode = "collector" /\ pc = "returned") =>
        /\ ckptFile[kind] = NoFile
        /\ emergFile[kind] = NoFile

NormalCheckpointWritten ==
    /\ ckptFile'[kind] # NoFile
    /\ ckptFile'[kind] # ckptFile[kind]

\* C11: the emergency checkpoint is never consumed: every attempt of a
\* collector starts at the page the normal checkpoint file names, or at 1
\* without one, whatever the emergency file holds, and a step that writes the
\* emergency checkpoint leaves the normal checkpoint file as it was.
C11_EmergencyNeverConsumed ==
    [][ /\ (pc = "coll_start" /\ pc' = "coll_loop") =>
               page' = IF ckptFile[kind] = NoFile
                       THEN 1 ELSE ckptFile[kind].last_page
        /\ (emergFile' # emergFile) => (ckptFile' = ckptFile) ]_vars

C11_Witness ==
    /\ pc = "coll_loop"
    /\ attempts[kind] >= 2
    /\ fetches = 0
    /\ emergFile[kind] # NoFile
    /\ emergFile[kind].last_page # page
    /\ ckptFile[kind] # NoFile

\* C12: over the crawl of one collection, retried attempts and new runs
\* after an interruption included, each write of the normal checkpoint
\* records a last_page strictly greater than the one it replaces.
C12_CheckpointMonotone ==
    [][ (NormalCheckpointWritten /\ ckptFile[kind] # NoFile) =>
            ckptFile'[kind].last_page > ckptFile[kind].last_page ]_vars

C12_Witness ==
    /\ prevPages # {}
    /\ attempts[kind] >= 2
    /\ ckptFile[kind] # NoFile
    /\ ckptFile[kind].last_page > CheckpointEvery(kind) + 1
    /\ lastReq + 1 = ckptFile[kind].last_page

\* C13: a normal checkpoint is written only right after a non-empty page p
\* has been accumulated, only for p a multiple of the interval (10 for
\* projects, 5 for groups), and it records last_page = p + 1, the page the
\* loop fetches next and greater than every page accumulated so far.
C13_CheckpointAfterPage ==
    [][ NormalCheckpointWritten =>
            /\ pc = "coll_loop"
            /\ lastReq' = page
            /\ page % CheckpointEvery(kind) = 0
            /\ Answer(kind, page, per_page) # <<>>
            /\ page \in runPages'
            /\ ckptFile'[kind].last_page = page + 1
            /\ ckptFile'[kind].total = Len(items')
            /\ page' = ckptFile'[kind].last_page
            /\ \A q \in runPages' \cup prevPages :
                    q < ckptFile'[kind].last_page ]_vars

C13_Witness ==
    /\ pc = "coll_loop"
    /\ ckptFile[kind] # NoFile
    /\ ckptFile[kind].last_page = page
    /\ lastReq = page - 1
    /\ lastReq % CheckpointEvery(kind) = 0
    /\ attempts[kind] >= 2

\* a page is requested from the platform in a step
PageRequested == fetches' = fetches + 1

\* C14 as claimed: every page requested in the crawl of one collection has
\* a number greater than the page requested before it, over all attempts.
C14_StrictlyIncreasingClaimed ==
    [][ (PageRequested /\ lastReq # 0) => lastReq' > lastReq ]_vars

\* C14: within one attempt of a collector the pages requested are
\* consecutive and increasing, starting at the start page the normal
\* checkpoint gives (or 1); an attempt re-run by the retry wrapper starts
\* again at that start page, which is at or below the page that failed.
C14_IncreasingWithinAttempt ==
    [][ PageRequested =>
            /\ lastReq' = page
            /\ (fetches = 0) => /\ page = StartPage(ckptFile[kind])
                                /\ (lastReq # 0 => page <= lastReq)
            /\ (fetches > 0) => lastReq' = lastReq + 1 ]_vars

C14_Witness ==
    /\ pc = "coll_loop"
    /\ attempts[kind] >= 2
    /\ fetches >= 2
    /\ lastReq = StartPage(ckptFile[kind]) + 1
    /\ emergFile[kind] # NoFile
    /\ emergFile[kind].last_page > lastReq

\* the pages the running process has fetched and accumulated that the
\* interrupted process before it had fetched and accumulated too
Refetched == runPages \cap prevPages

LevelsOf(r) ==
    {r.project_roles[i].access_level : i \in DOMAIN r.project_roles}
        \cup {r.group_roles[i].access_level : i \in DOMAIN r.group_roles}

\* the greatest element of a set of levels, 0 for the empty set
SetMax(S) == IF S = {} THEN 0 ELSE CHOOSE m \in S : \A x \in S : x <= m

\* the levels of the memberships the user has on the instance
PlatformLevels ==
    ({levels.projects[i] : i \in DOMAIN levels.projects}
        \cup {levels.groups[i] : i \in DOMAIN levels.groups}) \ {NotMember}

\* the label of an access level
RoleLabel(n) ==
    CASE n = 10 -> "Guest"
      [] n = 20 -> "Reporter"
      [] n = 30 -> "Developer"
      [] n = 40 -> "Maintainer"
      [] n = 50 -> "Owner"
      [] OTHER -> "Unknown (" \o ToString(n) \o ")"

\* C16: at every point of a call of a role function, after each membership
\* recorded as well as at the return, max_role_level is the maximum access
\* level over the entries of project_roles and group_roles, and it is 0
\* with an empty max_role_name when both lists are empty.
C16_MaxIsMaximum ==
    mode = "roles" =>
        /\ roles.max_role_level = SetMax(LevelsOf(roles))
        /\ (roles.project_roles = <<>> /\ roles.group_roles = <<>>) =>
                (roles.max_role_level = 0 /\ roles.max_role_name = "")

C16_Witness ==
    /\ pc = "probe_page"
    /\ tier = "direct"
    /\ Len(roles.project_roles) = 2
    /\ roles.project_roles[2].access_level
            < roles.project_roles[1].access_level
    /\ Len(roles.group_roles) = 1
    /\ roles.max_role_level = roles.project_roles[1].access_level

\* C17 as claimed: whatever the order of discovery, the profile returned
\* has the maximum of the levels recorded, and max_role_name is the label of
\* that level, "Unknown (n)" for an unrecognized n.
C17_NameIsLabelClaimed ==
    (pc = "roles_returned" /\ LevelsOf(roles) # {}) =>
        /\ roles.max_role_level = SetMax(LevelsOf(roles))
        /\ roles.max_role_name = RoleLabel(roles.max_role_level)

\* C17: the maximum and its name depend only on the set of levels
\* recorded, not on the order of discovery: max_role_level is the greatest
\* level recorded; max_role_name is the label of that level when it is above
\* 0 ("Unknown (n)" for an unrecognized n) and is empty when it is 0, even
\* with memberships of level 0 recorded. get_user_roles without a failed
\* request gives the greatest level of the user on the instance.
C17_OrderIndependentMax ==
    pc = "roles_returned" =>
        /\ roles.max_role_level = SetMax(LevelsOf(roles))
        /\ roles.max_role_name =
                IF roles.max_role_level > 0
                THEN RoleLabel(roles.max_role_level) ELSE ""
        /\ (tier = "full" /\ ~lookup_errors) =>
                roles.max_role_level = SetMax(PlatformLevels)

C17_Witness ==
    /\ pc = "roles_returned"
    /\ Len(roles.project_roles) = 2
    /\ roles.project_roles[1].access_level = 30
    /\ roles.project_roles[2].access_level = 50
    /\ Len(roles.group_roles) = 1
    /\ roles.group_roles[1].access_level = 10
    /\ roles.max_role_level = 50
    /\ roles.max_role_name = "Owner"

\* C18: a profile built by the fallback tier with no failed lookup holds, for
\* every group of the instance within the cap the user is a member of, an
\* entry in group_roles, and its maximum is at least that group's level.
C18_FallbackProbesGroups ==
    (pc = "roles_returned" /\ tier = "fallback" /\ ~lookup_errors) =>
        \A g \in DOMAIN levels.groups :
            (g < MaxGroupsToCheck /\ levels.groups[g] # NotMember) =>
                /\ \E i \in DOMAIN roles.group_roles :
                        roles.group_roles[i].id = g
                /\ roles.max_role_level >= levels.groups[g]

\* C19: on an instance below the caps and with no failed lookup, the
\* profile built through the direct tier has the max_role_level the
\* fallback tier gives for the same user.
C19_TiersAgree ==
    (pc = "roles_returned" /\ tier = "direct" /\ ~lookup_errors) =>
        roles.max_role_level =
            ProbedWithoutErrors(EmptyProfile, "fallback", 1).max_role_level

\* C20: get_user_roles_optimized called with skip_roles returns at once the
\* empty profile and has sent no request to the platform.
C20_SkipReturnsEmpty ==
    (mode = "roles" /\ entry = "get_user_roles_optimized" /\ skip_roles
        /\ pc # "roles_call") =>
        /\ pc = "roles_returned"
        /\ tier = "skip"
        /\ roles = EmptyProfile
        /\ requests = 0

C20_Witness ==
    /\ pc = "roles_returned"
    /\ entry = "get_user_roles_optimized"
    /\ skip_roles
    /\ PlatformLevels # {}
    /\ requests = 0

\* C21: in generate_report, with roles requested and more than 500 users
\* every user processed has been resolved, each in skip mode; with 500 users
\* or fewer and roles requested every user has been resolved, none in skip
\* mode, and performance mode is off; with roles not requested performance
\* mode is off and no user is resolved at all.
C21_SkipModeAbove500 ==
    (mode = "report" /\ pc # "report_call") =>
        /\ performance_mode = (roles_arg /\ users_len > 500)
        /\ \A j \in 1..Len(calls) : calls[j] = (roles_arg /\ users_len > 500)
        /\ Len(calls) = IF roles_arg THEN ri ELSE 0
        /\ (roles_arg /\ users_len > 500) =>
                \A j \in 1..ri : /\ user_data[j].max_role = ""
                                  /\ user_data[j].all_roles = <<>>

C21_Witness ==
    /\ mode = "report"
    /\ pc = "report_returned"
    /\ roles_arg
    /\ users_len = 501
    /\ Len(calls) = 501
    /\ calls[501]
    /\ 1 \in failing

\* the role keys a record of the report carries
RoleKeys(only) ==
    IF only THEN {"max_role"}
    ELSE {"max_role", "project_roles", "group_roles", "all_roles"}

\* the role fields of a record are all set and all empty
EmptyRoleFields(rec, only) ==
    /\ rec.keys = RoleKeys(only)
    /\ rec.max_role = ""
    /\ rec.project_roles = <<>>
    /\ rec.group_roles = <<>>
    /\ rec.all_roles = <<>>

\* C30: in generate_report the loop has one record per user processed, in
\* input order, and ends only with a record for every input user; a user
\* whose role resolution raised has its role fields set to the empty string,
\* and the users after it still get the profile their resolution returned;
\* no exception leaves the loop.
C30_ResolveFailureContained ==
    (mode = "report") =>
        /\ exc = NoExc
        /\ pc # "exited"
        /\ Len(user_data) = ri
        /\ \A j \in 1..ri : user_data[j].id = j
        /\ (pc = "report_returned") => Len(user_data) = users_len
        /\ \A j \in 1..ri :
            (roles_arg /\ users_len <= 500) =>
                IF j \in failing
                THEN EmptyRoleFields(user_data[j], max_role_only)
                ELSE /\ user_data[j].keys = RoleKeys(max_role_only)
                     /\ user_data[j].max_role = found.max_role_name

C30_Witness ==
    /\ mode = "report"
    /\ pc = "report_returned"
    /\ roles_arg
    /\ ~max_role_only
    /\ users_len = 2
    /\ failing = {1}
    /\ user_data[1].all_roles = <<>>
    /\ user_data[2].max_role = "Owner"
    /\ Len(user_data[2].all_roles) = 2

\* the usernames of UserNames the rules name: the reserved name, one that
\* holds "bot" in some case, one that starts with "support-"
ReservedNames ==
    { <<"g", "h", "o", "s", "t">>,
      <<"R", "o", "B", "O", "T", "7">>,
      <<"s", "u", "p", "p", "o", "r", "t", "-", "4", "2">> }

\* the first-match-wins rule set on the fields of a user
RuledNonBillable(user) ==
    \/ user.state # "active"
    \/ user.external
    \/ user.username \in ReservedNames

\* C22: a run that returns has put every user in non_billable_users when
\* its state is not "active", or it is external, or its username is "ghost",
\* holds "bot" in any case or starts with "support-", and in billable_users
\* otherwise.
C22_FirstMatchRules ==
    (mode = "run" /\ pc = "run_returned") =>
        \A u \in 1..size["users"] :
            /\ (u \in IdSet(non_billable_users)) <=> RuledNonBillable(attrs[u])
            /\ (u \in IdSet(billable_users)) <=> ~RuledNonBillable(attrs[u])

C22_Witness ==
    /\ mode = "run"
    /\ pc = "run_returned"
    /\ size["users"] = 2
    /\ attrs[1] = [state |-> "active", external |-> FALSE,
                   username |-> <<"R", "o", "B", "O", "T", "7">>]
    /\ attrs[2] = [state |-> "active", external |-> FALSE,
                   username |-> <<"G", "h", "o", "s", "t">>]
    /\ non_billable_users = <<1>>
    /\ billable_users = <<2>>

\* the subsequence of seq of the elements in set S
Restricted(seq, S) == SelectSeq(seq, LAMBDA x : x \in S)

\* C23: when get_users_with_batch_processing returns, every fetched user is
\* in exactly one of billable_users and non_billable_users, the two lists
\* hold the users of all_users and nothing else, each in the order of
\* all_users and each user once.
C23_TotalAndExclusive ==
    (mode = "run" /\ pc = "run_returned") =>
        /\ run_result = <<all_users, billable_users, non_billable_users>>
        /\ IdSet(billable_users) \cap IdSet(non_billable_users) = {}
        /\ IdSet(billable_users) \cup IdSet(non_billable_users)
                = IdSet(all_users)
        /\ Len(billable_users) + Len(non_billable_users) = Len(all_users)
        /\ billable_users = Restricted(all_users, IdSet(billable_users))
        /\ non_billable_users
                = Restricted(all_users, IdSet(non_billable_users))

C23_Witness ==
    /\ mode = "run"
    /\ pc = "run_returned"
    /\ Len(all_users) = MaxClassUsers
    /\ billable_users # <<>>
    /\ non_billable_users # <<>>
    /\ non_billable_users[1] < billable_users[1]

\* C24: in a run, once an error has come out of the users loop or of a
\* collector (a non-transient error, or a transient one after the
\* collector's retries), the process has exited with status 1, get_users has
\* returned nothing and no user has been classified; a run that returns has
\* seen no such error.
C24_FatalExitsWithoutResult ==
    (mode = "run") =>
        /\ (exc # NoExc) => pc = "exited"
        /\ (pc = "exited") =>
                /\ exit_status = 1
                /\ run_result = NoResult
                /\ billable_users = <<>>
                /\ non_billable_users = <<>>
        /\ (pc = "run_returned") => (exc = NoExc /\ exit_status = -1)

C24_Witness ==
    /\ mode = "run"
    /\ pc = "exited"
    /\ kind = "groups"
    /\ IsTransient(exc)
    /\ attempts["groups"] = CollectorMaxRetries + 1
    /\ all_users # <<>>
    /\ collected["projects"] # NoResult
    /\ collected["projects"] # <<>>

\* the users loop has ended with every user fetched
UsersComplete == pc # "run_start" /\ Len(all_users) = size["users"]

\* C25: in a run the projects collector starts only after the users loop
\* has ended, the groups collector only after the projects collector has
\* returned, and users are classified only after the groups collector has
\* returned.
C25_PhasesInOrder ==
    (mode = "run") =>
        /\ (kind \in CollectorKinds) => UsersComplete
        /\ (kind = "groups") => collected["projects"] # NoResult
        /\ (collected["groups"] # NoResult) => collected["projects"] # NoResult
        /\ (\/ pc \in {"batches", "run_returned"}
            \/ batch_i > 0
            \/ billable_users # <<>>
            \/ non_billable_users # <<>>) =>
                /\ UsersComplete
                /\ collected["projects"] # NoResult
                /\ collected["groups"] # NoResult

C25_Witness ==
    /\ mode = "run"
    /\ pc = "run_returned"
    /\ billable_users # <<>>
    /\ attempts["projects"] >= 2
    /\ attempts["groups"] >= 2
    /\ collected["projects"] # <<>>
    /\ collected["groups"] # <<>>

\* C26: a collector call returns only when the last three pages it
\* requested were answered empty one after the other; a non-empty page sets
\* the counter of empty pages back to 0, so no three consecutive empty pages
\* came earlier and the entities of every page answered before them, the
\* pages after one or two empty ones included, are in the list returned.
C26_EndsAfterThreeEmpties ==
    /\ (mode = "collector" /\ pc = "coll_loop" /\ lastReq # 0
            /\ Answer(kind, lastReq, per_page) # <<>>) => empties = 0
    /\ (mode = "collector" /\ pc = "returned") =>
            /\ empties = MaxConsecutiveEmpty
            /\ page > MaxConsecutiveEmpty
            /\ \A q \in (page - MaxConsecutiveEmpty)..(page - 1) :
                    Answer(kind, q, per_page) = <<>>
            /\ \A q \in 1..(page - MaxConsecutiveEmpty - 1) :
                    /\ IdSet(Answer(kind, q, per_page)) \subseteq IdSet(result)
                    /\ \E n \in q..(q + MaxConsecutiveEmpty - 1) :
                            Answer(kind, n, per_page) # <<>>

C26_Witness ==
    /\ mode = "collector"
    /\ pc = "returned"
    /\ {2, 3} \subseteq holes
    /\ Answer(kind, 1, per_page) # <<>>
    /\ Answer(kind, 4, per_page) # <<>>
    /\ IdSet(Answer(kind, 4, per_page)) \subseteq IdSet(result)

\* the resources of kind k a lookup was made on
LookedUp(k) == {l.id : l \in {x \in lookups : x.kind = k}}

\* C27: with every listing answered, the bounded project enumeration of
\* get_user_roles_fallback has looked up the user in exactly the first
\* min(P, 100) projects, and the bounded group enumeration of
\* get_user_roles_optimized in exactly the first min(G, 500) groups.
C27_ProbesFirstCap ==
    (pc = "roles_returned" /\ ~list_errors) =>
        /\ (tier = "fallback") =>
                LookedUp("projects")
                    = 1..Min(size["projects"], MaxProjectsToCheck)
        /\ (tier = "direct") =>
                LookedUp("groups") = 1..Min(size["groups"], MaxGroupsToCheck)

\* the resources a tier enumerates, below its cap
Enumerated(t) ==
    CASE t = "direct" ->
            {<<"projects", UserProjects[i]>> : i \in DOMAIN UserProjects}
                \cup {<<"groups", g>> :
                        g \in 1..Min(size["groups"], MaxGroupsToCheck - 1)}
      [] t = "fallback" ->
            {<<"projects", i>> :
                i \in 1..Min(size["projects"], MaxProjectsToCheck - 1)}
      [] t = "full" ->
            {<<"projects", i>> : i \in 1..size["projects"]}
                \cup {<<"groups", g>> : g \in 1..size["groups"]}
      [] OTHER -> {}

\* a profile holds an entry for resource r
HasEntry(r, res) ==
    IF res[1] = "projects"
    THEN \E i \in DOMAIN r.project_roles : r.project_roles[i].id = res[2]
    ELSE \E i \in DOMAIN r.group_roles : r.group_roles[i].id = res[2]

\* the lookup made on resource res raised
LookupFailed(res) ==
    \E l \in lookups :
        l.kind = res[1] /\ l.id = res[2] /\ l.outcome \in {"error", "get_error"}

\* C28: when a role function has returned with every listing answered,
\* each resource of its enumeration has been looked up whatever lookups
\* failed on other resources, and every membership whose own lookup did not
\* fail has its entry in the profile and counts toward the maximum.
C28_ErrorSkipsOneResource ==
    (pc = "roles_returned" /\ ~list_errors) =>
        \A res \in Enumerated(tier) :
            /\ res[2] \in LookedUp(res[1])
            /\ (levels[res[1]][res[2]] # NotMember /\ ~LookupFailed(res)) =>
                    /\ HasEntry(roles, res)
                    /\ roles.max_role_level >= levels[res[1]][res[2]]

C28_Witness ==
    /\ pc = "roles_returned"
    /\ tier = "fallback"
    /\ ~list_errors
    /\ Lookup("projects", 1, "error") \in lookups
    /\ HasEntry(roles, <<"projects", 2>>)
    /\ roles.max_role_level = levels.projects[2]
    /\ levels.projects[1] > levels.projects[2]

\* C29: a probe answered "not a member" records nothing and prints no
\* warning; every probe that fails for another reason has a warning printed
\* and records nothing.
C29_OnlyNotMemberIsSilent ==
    (mode = "roles" /\ tier \in {"direct", "fallback"}) =>
        \A l \in lookups :
            /\ (l.outcome = "not_member") =>
                    /\ <<l.kind, l.id>> \notin warned
                    /\ ~HasEntry(roles, <<l.kind, l.id>>)
            /\ (l.outcome \in {"error", "get_error"}) =>
                    /\ <<l.kind, l.id>> \in warned
                    /\ ~HasEntry(roles, <<l.kind, l.id>>)

C32_PacedRequests ==
    (mode = "collector" /\ pc = "coll_loop" /\ fetches > 0) =>
        /\ (empties < 3) => (paced # <<>> /\ paced[1] = 500)
        /\ (fetches % 100 = 0) => (Len(paced) = 2 /\ paced[2] = 10000)

\* the classified users so far
Classified == IdSet(billable_users) \cup IdSet(non_billable_users)

\* the ids of seq increase from left to right
Increasing(seq) == \A i, j \in 1..Len(seq) : i < j => seq[i] < seq[j]

\* C33: after b batches (one pause taken after each) the users classified
\* are the first min(100 b, U) of the U fetched users, each in exactly one
\* list and once, in fetch order; the run returns after ceil(U / 100)
\* batches, with every user classified.
C33_BatchesOfHundred ==
    (mode = "run") =>
        /\ batch_i = 100 * batch_sleeps
        /\ (batch_sleeps > 0) => 100 * (batch_sleeps - 1) < Len(all_users)
        /\ Classified =
                IdSet(SubSeq(all_users, 1, Min(100 * batch_sleeps,
                                               Len(all_users))))
        /\ Len(billable_users) + Len(non_billable_users)
                = Min(100 * batch_sleeps, Len(all_users))
        /\ Increasing(billable_users)
        /\ Increasing(non_billable_users)
        /\ (pc = "run_returned") =>
                /\ batch_sleeps = CeilDiv(Len(all_users), 100)
                /\ Classified = IdSet(all_users)

C33_Witness ==
    /\ mode = "run"
    /\ pc = "run_returned"
    /\ Len(all_users) = 201
    /\ batch_sleeps = 3
    /\ Len(billable_users) = 101
    /\ Len(non_billable_users) = 100

\* the pages 1..n of the users listing as the platform answers them, one
\* after the other
UsersPages(n) ==
    LET RECURSIVE Cat(_)
        Cat(k) == IF k = 0 THEN <<>>
                  ELSE Cat(k - 1) \o Answer("users", k, 20)
    IN Cat(n)

\* C34: the users loop requests pages 1, 2, ... of 20 users: what it has
\* accumulated is the concatenation of the pages before the current one,
\* none of them empty; it ends at the first page answered empty, and
\* all_users stays that concatenation; no step of the loop changes a
\* checkpoint file or an emergency file, whatever file is on disk.
C34_UsersPlainPagination ==
    /\ []((mode = "run" /\ pc # "run_start") =>
            /\ all_users = UsersPages(upage - 1)
            /\ \A p \in 1..(upage - 1) : Answer("users", p, 20) # <<>>
            /\ (kind # "users") => Answer("users", upage, 20) = <<>>)
    /\ [][(mode = "run" /\ kind = "users") =>
            /\ ckptFile' = ckptFile
            /\ emergFile' = emergFile
            /\ (pc = "run_start") => (upage' = 1 /\ all_users' = <<>>)]_vars

C34_Witness ==
    /\ mode = "run"
    /\ pc = "run_returned"
    /\ size["users"] = 101
    /\ holes = {3}
    /\ upage = 3
    /\ Len(all_users) = 40

\* C35: the list a collector accumulates, and the list it returns, holds no
\* entity id twice, whatever file was at the checkpoint path when it was
\* called and whatever attempts failed before.
C35_NoEntityTwice ==
    (mode = "collector") =>
        /\ Cardinality(IdSet(items)) = Len(items)
        /\ (pc = "returned") => Cardinality(IdSet(result)) = Len(result)

C35_Witness ==
    /\ mode = "collector"
    /\ pc = "returned"
    /\ ckptAtCall = LeftoverCheckpoint(1, per_page)
    /\ attempts[kind] >= 3
    /\ lastOutcome.type = "return"
    /\ Len(result) = MaxN
    /\ emergFile[kind] # NoFile
    /\ emergFile[kind].total > 0

\* C36: in a run each collector is attempted at most 11 times, and the
\* bodies of get_users and get_users_with_batch_processing are each entered
\* once, their wrappers never counting a retry and never sleeping: a run
\* that has exited stays exited.
C36_RetriesDoNotMultiply ==
    (mode = "run") =>
        /\ attempts["projects"] <= 11
        /\ attempts["groups"] <= 11
        /\ attempts["batch"] <= 1
        /\ attempts["get_users"] <= 1
        /\ wr["batch"].retries = 0
        /\ wr["get_users"].retries = 0
        /\ slept["batch"] = <<>>
        /\ slept["get_users"] = <<>>
        /\ (pc = "exited") => attempts["batch"] = 1

C36_Witness ==
    /\ mode = "run"
    /\ pc = "exited"
    /\ attempts["projects"] = 11
    /\ attempts["groups"] = 11
    /\ attempts["batch"] = 1
    /\ all_users # <<>>

\* C37: every step in which a page fetch of a collector fails leaves an
\* emergency checkpoint whose last_page is the page that was requested and
\* whose total is the length of the list the attempt had accumulated; a
\* start from that record begins at the failed page.
C37_EmergencyRecordsFailedPage ==
    [][(mode = "collector" /\ faults' = faults + 1) =>
            /\ emergFile'[kind].last_page = page
            /\ emergFile'[kind].last_page = lastReq'
            /\ emergFile'[kind].total = Len(items)
            /\ StartPage(emergFile'[kind]) = page]_vars

C37_Witness ==
    /\ mode = "collector"
    /\ pc = "raised"
    /\ emergFile[kind] # NoFile
    /\ emergFile[kind].last_page = 3
    /\ emergFile[kind].total = 2 * per_page
    /\ lastReq = 3
    /\ attempts[kind] >= 2

\* C38: generate_report never shows the confirmation prompt: with roles
\* requested and more than 1000 users performance mode is already on when
\* the test of the prompt is made, and include_roles stays as passed.
C38_NeverPrompts ==
    (mode = "report") =>
        /\ ~prompted
        /\ pc # "report_prompt"
        /\ include_roles = roles_arg
        /\ (pc # "report_call" /\ roles_arg /\ users_len > 1000)
                => performance_mode

C38_Witness ==
    /\ mode = "report"
    /\ pc = "report_returned"
    /\ roles_arg
    /\ users_len = 1001
    /\ performance_mode
    /\ ~prompted
    /\ Len(user_data) = 1001

\* the operator ProbedWithoutErrors gives the profile the fallback returns
FallbackAsProbed ==
    (pc = "roles_returned" /\ tier = "fallback" /\ ~lookup_errors) =>
        roles = ProbedWithoutErrors(EmptyProfile, "fallback", 1)

====
